---- MODULE Spec2Model ----
(***************************************************************************)
(* Model of dnnl_graph_allocator::monitor_t (src/interface/allocator.cpp): *)
(* the process-wide memory-usage registries, the reader/writer lock that   *)
(* guards them and the threads that call the monitor's static methods.     *)
(*                                                                         *)
(* record_allocate and record_deallocate (lines 89-123) take no lock;      *)
(* lock_write/unlock_write (lines 152-158) are what a caller has to        *)
(* serialise them.  Each of the two is therefore modelled as two steps, a  *)
(* step that reads and a step that writes what it read, so that calls made *)
(* without the lock interleave the way the unsynchronised code can.        *)
(*   Spec      callers hold the write lock around record_allocate and      *)
(*             record_deallocate;                                          *)
(*   SpecFree  callers may also call them without the lock.                *)
(* The C API that creates and destroys allocators (lines 28-67) works on   *)
(* state of its own and has its own specification, SpecFacade.             *)
(***************************************************************************)
EXTENDS Integers, FiniteSets, TLC

(* ------------------------------ bounds -------------------------------- *)

\* Monitor calls (record/reset/get) started in one behaviour of Spec.
MaxCalls == 3

\* Monitor calls started in one behaviour of SpecFree.
MaxFreeCalls == 2

\* API calls (create/destroy) made in one behaviour of SpecFacade.
MaxApiCalls == 3

Threads == {"t1", "t2"}
Allocs  == {"A", "B"}
Addrs   == {"a1", "a2"}
\* The sizes an address is recorded with: a1 can come back with another size.
SizesOf(buf) == IF buf = "a1" THEN {1, 2} ELSE {2}
\* allocator_lifetime: output is declared and has no branch of its own.
Lifetimes == {"persistent", "temp", "output"}

\* size_t arithmetic wraps; the width is reduced from 64 bits to 6.
SizeMod == 2 ^ 6

\* What dereferencing an end() iterator can yield: a crash (-1) or any
\* stale size_ value.
UBOutcomes == {-1, 0, 1}

NoThread == "none"

\* a callback argument: a null pointer or a function
Callbacks == {"null", "fn"}
\* the caller's allocator_t * variables
HandleVars == {"p", "q"}
nullptr == 0

\* The builds: DNNL_GRAPH_CPU_SYCL and DNNL_GRAPH_WITH_SYCL defined or not
\* (a build with the SYCL CPU runtime is a build with SYCL).
Builds == {b \in [cpu_sycl : BOOLEAN, with_sycl : BOOLEAN] :
              b.cpu_sycl => b.with_sycl}
DefaultBuild == [cpu_sycl |-> FALSE, with_sycl |-> FALSE]

VARIABLES
    persist_mem_,        \* alloc -> total
    persist_mem_infos_,  \* alloc -> (buf -> mem_info_t)
    temp_mem_,           \* tid -> (alloc -> current)
    peak_temp_mem_,      \* tid -> (alloc -> peak)
    temp_mem_infos_,     \* tid -> (alloc -> (buf -> mem_info_t))
    rw_mutex_,           \* [writer, readers]
    pc,                  \* where each thread is
    call,                \* each thread's arguments and locals
    ret,                 \* what the last completed call gave, and to whom
    ncalls,              \* monitor calls started
    live,                \* history: buf -> the allocation the caller holds
    gh,                  \* history: per (tid, alloc) slot
    build,               \* the macros the library is compiled with
    allocators,          \* the allocator_t objects created: id -> object
    handle,              \* the caller's allocator_t * variables
    status               \* the last API call and the status_t it returned

registries == <<persist_mem_, persist_mem_infos_, temp_mem_, peak_temp_mem_,
                temp_mem_infos_>>
monitorVars == <<persist_mem_, persist_mem_infos_, temp_mem_, peak_temp_mem_,
                 temp_mem_infos_, rw_mutex_, pc, call, ret, ncalls, live, gh>>
facadeVars == <<build, allocators, handle, status>>
vars == <<persist_mem_, persist_mem_infos_, temp_mem_, peak_temp_mem_,
          temp_mem_infos_, rw_mutex_, pc, call, ret, ncalls, live, gh,
          build, allocators, handle, status>>

(* ------------------------- unordered_map ------------------------------ *)

EmptyMap == [x \in {} |-> 0]

Get(m, k, d) == IF k \in DOMAIN m THEN m[k] ELSE d

Put(m, k, v) == [x \in DOMAIN m \cup {k} |-> IF x = k THEN v ELSE m[x]]

Erase(m, k) == [x \in DOMAIN m \ {k} |-> m[x]]

\* unordered_map::emplace: an existing key keeps its value.
Emplace(m, k, v) == IF k \in DOMAIN m THEN m ELSE Put(m, k, v)

\* M[tid] on an outer map shared by all threads.  A thread that finds its
\* key absent links a new node after the nodes it saw when it looked
\* (snap): nodes linked by other threads since then are lost.  Under the
\* lock snap is the map's domain and nothing is lost.
Outer(M, snap, tid) ==
    IF tid \in DOMAIN M THEN M
    ELSE [k \in (DOMAIN M \cap snap) \cup {tid} |->
             IF k = tid THEN EmptyMap ELSE M[k]]

\* M[tid][alloc], or d when the slot is absent (no insertion).
Slot(M, tid, alloc, d) ==
    IF tid \in DOMAIN M /\ alloc \in DOMAIN M[tid] THEN M[tid][alloc] ELSE d

HasSlot(M, tid, alloc) == tid \in DOMAIN M /\ alloc \in DOMAIN M[tid]

SetSlot_AllThreads(M, snap, tid, alloc, v) ==
    LET M1 == Outer(M, snap, tid)
    IN  [k \in DOMAIN M1 |-> Put(M1[k], alloc, v)]
\* M[tid][alloc] = v
SetSlot(M, snap, tid, alloc, v) ==
    LET M1 == Outer(M, snap, tid)
    IN  Put(M1, tid, Put(M1[tid], alloc, v))

mem_info_t(size, type) == [size_ |-> size, type_ |-> type]

(* --------------------------- arithmetic -------------------------------- *)

AddSize_Forget(total, size) == size % SizeMod
\* total += size
AddSize(total, size) == (total + size) % SizeMod

SubSize_Keep(total, size) == total
\* total -= size
SubSize(total, size) == (total - size + SizeMod) % SizeMod

RaisePeak_Follow(peak, cur) == cur
\* if (peak < cur) peak = cur
RaisePeak(peak, cur) == IF peak < cur THEN cur ELSE peak

Max(a, b) == IF a < b THEN b ELSE a

RECURSIVE SumSizes(_)
\* the sum of size_ over the entries of an entry map
SumSizes(m) ==
    IF DOMAIN m = {} THEN 0
    ELSE LET k == CHOOSE x \in DOMAIN m : TRUE
         IN  m[k].size_ + SumSizes(Erase(m, k))

(* ------------------------------ rw_mutex_t ----------------------------- *)

CanLockWrite == rw_mutex_.writer = NoThread /\ rw_mutex_.readers = 0
CanLockRead  == rw_mutex_.writer = NoThread

HoldsWrite(t) == rw_mutex_.writer = t

(* ------------------------------- Init ---------------------------------- *)

\* prev is history: the allocator whose peak the thread's last completed call
\* has reset, "-" when that call was no reset.
NoCall == [op |-> "none", alloc |-> "-", buf |-> "-", size |-> 0,
           type |-> "-", is_persist |-> FALSE, total |-> 0,
           tm |-> {}, pk |-> {}, ti |-> {}, prev |-> "-"]

\* owner is history: the thread that recorded the allocation deallocated.
NoRet == [tid |-> NoThread, op |-> "none", alloc |-> "-", status |-> "-",
          val |-> 0, known |-> FALSE, expect |-> 0, owner |-> NoThread]

\* History of a (tid, alloc) slot.  hist: 0, then 1 once the thread has reset
\* the allocator's peak, then 2 once it has deallocated on the temporary
\* branch.  curMax: the largest temporary current since the last reset.
\* misuse: the thread has deallocated, on the temporary branch, an address
\* that was no live temporary allocation of its own on the allocator.
NoHist == [hist |-> 0, curMax |-> 0, misuse |-> FALSE]

NoStatus == [n |-> 0, op |-> "none", var |-> "-", malloc |-> "-",
             free |-> "-", code |-> "-"]

InitAllocators ==
    /\ allocators = EmptyMap
    /\ handle = [v \in HandleVars |-> nullptr]
    /\ status = NoStatus

InitMonitor ==
    /\ persist_mem_ = EmptyMap
    /\ persist_mem_infos_ = EmptyMap
    /\ temp_mem_ = EmptyMap
    /\ peak_temp_mem_ = EmptyMap
    /\ temp_mem_infos_ = EmptyMap
    /\ rw_mutex_ = [writer |-> NoThread, readers |-> 0]
    /\ pc = [t \in Threads |-> "idle"]
    /\ call = [t \in Threads |-> NoCall]
    /\ ret = NoRet
    /\ ncalls = 0
    /\ live = EmptyMap
    /\ gh = [t \in Threads |-> [a \in Allocs |-> NoHist]]

Init == InitMonitor /\ InitAllocators /\ build = DefaultBuild

\* the same, in any build
InitAnyBuild == InitMonitor /\ InitAllocators /\ build \in Builds

(* ------------------------- caller-side helpers ------------------------- *)

Budget == ncalls < MaxCalls

Begin(t, c, next) ==
    /\ pc[t] = "idle"
    /\ Budget
    /\ pc' = [pc EXCEPT ![t] = next]
    /\ call' = [call EXCEPT ![t] = [c EXCEPT !.prev = call[t].prev]]
    /\ ncalls' = ncalls + 1
    /\ UNCHANGED <<ret, facadeVars>>

Finish(t, r) ==
    /\ pc' = [pc EXCEPT ![t] = "idle"]
    /\ call' = [call EXCEPT ![t] =
                  [NoCall EXCEPT !.prev =
                      IF r.op = "reset_peak_temp_memory" THEN r.alloc
                                                         ELSE "-"]]
    /\ ret' = r
    /\ UNCHANGED facadeVars

Returned(t, val, known) ==
    [tid |-> t, op |-> call[t].op, alloc |-> call[t].alloc,
     status |-> "returned", val |-> val, known |-> known, expect |-> 0,
     owner |-> NoThread]

\* the process dies: no thread runs after it
Crash(t) ==
    /\ pc' = [u \in Threads |-> "dead"]
    /\ ret' = [Returned(t, 0, FALSE) EXCEPT !.status = "crash"]
    /\ UNCHANGED <<registries, rw_mutex_, call, ncalls, live, gh, facadeVars>>

\* history: the sum of the sizes of the persistent allocations live on alloc
LivePersistSum(alloc) ==
    LET S == {b \in DOMAIN live : live[b].alloc = alloc
                                  /\ live[b].type = "persistent"}
    IN  SumSizes([b \in S |-> [size_ |-> live[b].size]])

\* history: the sum of the sizes of the temporary allocations live on alloc
LiveTempSum(alloc) ==
    LET S == {b \in DOMAIN live : live[b].alloc = alloc
                                  /\ live[b].type = "temp"}
    IN  SumSizes([b \in S |-> [size_ |-> live[b].size]])

\* history: every other live persistent allocation of alloc is to come back
\* to a total that is d higher
Shift(l, alloc, d) ==
    [b \in DOMAIN l |->
        IF l[b].alloc = alloc /\ l[b].type = "persistent"
        THEN [l[b] EXCEPT !.back = (l[b].back + d + SizeMod) % SizeMod]
        ELSE l[b]]

(* --------------------- lock_write / unlock_write ---------------------- *)

\* monitor_t::lock_write(), called by a thread that is in no monitor call
LockWrite(t) ==
    /\ pc[t] = "idle"
    /\ CanLockWrite
    /\ rw_mutex_' = [rw_mutex_ EXCEPT !.writer = t]
    /\ UNCHANGED <<registries, pc, call, ret, ncalls, live, gh, facadeVars>>

\* monitor_t::unlock_write(), by the thread that holds the lock
UnlockWrite(t) ==
    /\ pc[t] = "idle"
    /\ HoldsWrite(t)
    /\ rw_mutex_' = [rw_mutex_ EXCEPT !.writer = NoThread]
    /\ UNCHANGED <<registries, pc, call, ret, ncalls, live, gh, facadeVars>>

(* --------------------------- record_allocate -------------------------- *)

\* The caller passes an address its allocate callback has just returned:
\* one that no live allocation has.
FreshAddr(buf) ==
    /\ buf \notin DOMAIN live
    /\ \A u \in Threads : pc[u] = "ra_write" => call[u].buf # buf

Branch_NoElseIf(type) ==
    IF type = "persistent" THEN "persistent" ELSE "temp"
\* the branch record_allocate takes for a lifetime: lines 92, 96, 103
Branch(type) ==
    IF type = "persistent" THEN "persistent"
    ELSE IF type = "temp" THEN "temp"
    ELSE "else"

\* the reads of lines 93 and 98-101
RecordAllocateRead(t, alloc, buf, size, type) ==
    LET br == Branch(type) IN
    /\ FreshAddr(buf)
    /\ Begin(t, [NoCall EXCEPT !.op = "record_allocate", !.alloc = alloc,
                    !.buf = buf, !.size = size, !.type = type,
                    !.total = IF br = "persistent"
                              THEN Get(persist_mem_, alloc, 0) ELSE 0,
                    !.tm = IF br = "temp" THEN DOMAIN temp_mem_ ELSE {},
                    !.pk = IF br = "temp" THEN DOMAIN peak_temp_mem_ ELSE {},
                    !.ti = IF br = "temp" THEN DOMAIN temp_mem_infos_ ELSE {}],
             "ra_write")
    /\ UNCHANGED <<registries, rw_mutex_, live, gh>>

\* lines 93-95
AllocatePersistent(t) ==
    LET c == call[t] IN
    /\ persist_mem_' = Put(persist_mem_, c.alloc, AddSize(c.total, c.size))
    /\ persist_mem_infos_' =
           Put(persist_mem_infos_, c.alloc,
               Emplace(Get(persist_mem_infos_, c.alloc, EmptyMap), c.buf,
                       mem_info_t(c.size, "persistent")))
    /\ live' = Put(Shift(live, c.alloc, c.size), c.buf,
                   [alloc |-> c.alloc, type |-> "persistent",
                    size |-> c.size, tid |-> t, back |-> c.total])
    /\ UNCHANGED <<temp_mem_, peak_temp_mem_, temp_mem_infos_, gh>>

\* lines 97-102
AllocateTemp(t) ==
    LET c   == call[t]
        cur == AddSize(Slot(temp_mem_, t, c.alloc, 0), c.size)
        pk  == RaisePeak(Slot(peak_temp_mem_, t, c.alloc, 0), cur)
        g   == gh[t][c.alloc]
    IN
    /\ temp_mem_' = SetSlot(temp_mem_, c.tm, t, c.alloc, cur)
    /\ peak_temp_mem_' = SetSlot(peak_temp_mem_, c.pk, t, c.alloc, pk)
    /\ temp_mem_infos_' =
           SetSlot(temp_mem_infos_, c.ti, t, c.alloc,
                   Emplace(Slot(temp_mem_infos_, t, c.alloc, EmptyMap), c.buf,
                           mem_info_t(c.size, "temp")))
    /\ live' = Put(live, c.buf, [alloc |-> c.alloc, type |-> "temp",
                                 size |-> c.size, tid |-> t, back |-> 0])
    /\ gh' = [gh EXCEPT ![t][c.alloc] =
                 [g EXCEPT !.curMax = Max(g.curMax, cur)]]
    /\ UNCHANGED <<persist_mem_, persist_mem_infos_>>

\* assertm(0, msg), line 105: the fatal abort of the process
assertm(t) ==
    /\ pc' = [u \in Threads |-> "dead"]
    /\ ret' = [Returned(t, 0, FALSE) EXCEPT !.status = "abort"]
    /\ UNCHANGED <<registries, rw_mutex_, call, ncalls, live, gh, facadeVars>>

\* the writes of lines 92-106
RecordAllocateWrite(t) ==
    LET br == Branch(call[t].type) IN
    /\ pc[t] = "ra_write"
    /\ IF br = "else"
       THEN assertm(t)
       ELSE /\ IF br = "persistent" THEN AllocatePersistent(t)
                                    ELSE AllocateTemp(t)
            /\ Finish(t, Returned(t, 0, TRUE))
            /\ UNCHANGED <<rw_mutex_, ncalls>>

(* -------------------------- record_deallocate ------------------------- *)

IsPersist_Never(alloc, buf) == FALSE
\* lines 111-113
IsPersist(alloc, buf) ==
    /\ alloc \in DOMAIN persist_mem_infos_
    /\ buf \in DOMAIN persist_mem_infos_[alloc]

\* temp_pos != end() (the code never asks)
IsTemp(t, alloc, buf) ==
    /\ HasSlot(temp_mem_infos_, t, alloc)
    /\ buf \in DOMAIN temp_mem_infos_[t][alloc]

\* lines 111-113, and the reads of lines 116 and 120-121
RecordDeallocateRead(t, alloc, buf) ==
    LET p == IsPersist(alloc, buf) IN
    /\ Begin(t, [NoCall EXCEPT !.op = "record_deallocate", !.alloc = alloc,
                    !.buf = buf, !.is_persist = p,
                    !.total = IF p THEN Get(persist_mem_, alloc, 0) ELSE 0,
                    !.tm = IF p THEN {} ELSE DOMAIN temp_mem_,
                    !.ti = IF p THEN {} ELSE DOMAIN temp_mem_infos_],
             "rd_write")
    /\ UNCHANGED <<registries, rw_mutex_, live, gh>>

\* history: buf is a live temporary allocation of thread t on alloc
OwnLiveTemp(t, alloc, buf) ==
    /\ buf \in DOMAIN live
    /\ live[buf].alloc = alloc /\ live[buf].type = "temp"
    /\ live[buf].tid = t

\* history: the thread that recorded the live allocation buf of alloc
Owner(alloc, buf) ==
    IF buf \in DOMAIN live /\ live[buf].alloc = alloc THEN live[buf].tid
                                                       ELSE NoThread

\* history: the caller frees the allocation it held
Release(l, alloc, buf) ==
    IF buf \in DOMAIN l /\ l[buf].alloc = alloc
    THEN IF l[buf].type = "persistent"
         THEN Shift(Erase(l, buf), alloc, 0 - l[buf].size)
         ELSE Erase(l, buf)
    ELSE l

DeallocatePersistent_KeepEntry(t, found, size) ==
    LET c == call[t] IN
    /\ persist_mem_' = Put(persist_mem_, c.alloc, SubSize(c.total, size))
    /\ UNCHANGED <<persist_mem_infos_, temp_mem_, peak_temp_mem_,
                   temp_mem_infos_, gh>>
\* lines 115-117; size is persist_pos->second.size_
DeallocatePersistent(t, found, size) ==
    LET c == call[t] IN
    /\ persist_mem_' = Put(persist_mem_, c.alloc, SubSize(c.total, size))
    /\ persist_mem_infos_' =
           IF found
           THEN Put(persist_mem_infos_, c.alloc,
                    Erase(persist_mem_infos_[c.alloc], c.buf))
           ELSE persist_mem_infos_
    /\ UNCHANGED <<temp_mem_, peak_temp_mem_, temp_mem_infos_, gh>>

\* lines 119-121; size is temp_pos->second.size_
DeallocateTemp(t, size) ==
    LET c   == call[t]
        cur == SubSize(Slot(temp_mem_, t, c.alloc, 0), size)
        g   == gh[t][c.alloc]
    IN
    /\ temp_mem_infos_' =
           SetSlot(temp_mem_infos_, c.ti, t, c.alloc,
                   Slot(temp_mem_infos_, t, c.alloc, EmptyMap))
    /\ temp_mem_' = SetSlot(temp_mem_, c.tm, t, c.alloc, cur)
    /\ gh' = [gh EXCEPT ![t][c.alloc] =
                 [g EXCEPT !.hist = 2, !.curMax = Max(g.curMax, cur),
                           !.misuse = @ \/ ~OwnLiveTemp(t, c.alloc, c.buf)]]
    /\ UNCHANGED <<persist_mem_, persist_mem_infos_, peak_temp_mem_>>

\* whether the find of line 115 or of line 120 finds the address
DeallocFound(t) ==
    IF call[t].is_persist THEN IsPersist(call[t].alloc, call[t].buf)
                          ELSE IsTemp(t, call[t].alloc, call[t].buf)

\* The writes of lines 114-122.  An iterator equal to end() is dereferenced
\* when the address is in the map searched no more: ub is what that gives.
RecordDeallocateWrite(t) ==
    /\ pc[t] = "rd_write"
    /\ \E ub \in UBOutcomes :
        LET c     == call[t]
            found == DeallocFound(t)
            size  == IF ~found THEN ub
                     ELSE IF c.is_persist
                          THEN persist_mem_infos_[c.alloc][c.buf].size_
                          ELSE temp_mem_infos_[t][c.alloc][c.buf].size_
        IN
        /\ found => ub = 0
        /\ IF size = -1
           THEN Crash(t)
           ELSE /\ IF c.is_persist THEN DeallocatePersistent(t, found, size)
                                   ELSE DeallocateTemp(t, size)
                /\ live' = Release(live, c.alloc, c.buf)
                /\ Finish(t, [Returned(t, size, found) EXCEPT
                                  !.owner = Owner(c.alloc, c.buf)])
                /\ UNCHANGED <<rw_mutex_, ncalls>>

(* ----------------------- reset_peak_temp_memory ----------------------- *)

ResetLock_Skip(t, alloc) ==
    /\ Begin(t, [NoCall EXCEPT !.op = "reset_peak_temp_memory",
                               !.alloc = alloc,
                               !.pk = DOMAIN peak_temp_mem_], "rp_write")
    /\ UNCHANGED <<registries, rw_mutex_, live, gh>>

\* lines 127-128: the call, blocked until the write lock is its own
ResetLock(t, alloc) ==
    /\ CanLockWrite
    /\ rw_mutex_' = [rw_mutex_ EXCEPT !.writer = t]
    /\ Begin(t, [NoCall EXCEPT !.op = "reset_peak_temp_memory",
                               !.alloc = alloc,
                               !.pk = DOMAIN peak_temp_mem_], "rp_write")
    /\ UNCHANGED <<registries, live, gh>>

ResetWrite_ToCurrent(t) ==
    LET c == call[t]
        g == gh[t][c.alloc]
    IN
    /\ pc[t] = "rp_write"
    /\ peak_temp_mem_' = SetSlot(peak_temp_mem_, c.pk, t, c.alloc,
                                 Slot(temp_mem_, t, c.alloc, 0))
    /\ rw_mutex_' = [rw_mutex_ EXCEPT !.writer = NoThread]
    /\ gh' = [gh EXCEPT ![t][c.alloc] =
                 [g EXCEPT !.hist = Max(g.hist, 1),
                           !.curMax = Slot(temp_mem_, t, c.alloc, 0)]]
    /\ Finish(t, Returned(t, 0, TRUE))
    /\ UNCHANGED <<persist_mem_, persist_mem_infos_, temp_mem_,
                   temp_mem_infos_, ncalls, live>>
\* lines 129-130
ResetWrite(t) ==
    LET c == call[t]
        g == gh[t][c.alloc]
    IN
    /\ pc[t] = "rp_write"
    /\ peak_temp_mem_' = SetSlot(peak_temp_mem_, c.pk, t, c.alloc, 0)
    /\ rw_mutex_' = [rw_mutex_ EXCEPT !.writer = NoThread]
    /\ gh' = [gh EXCEPT ![t][c.alloc] =
                 [g EXCEPT !.hist = Max(g.hist, 1),
                           !.curMax = Slot(temp_mem_, t, c.alloc, 0)]]
    /\ Finish(t, Returned(t, 0, TRUE))
    /\ UNCHANGED <<persist_mem_, persist_mem_infos_, temp_mem_,
                   temp_mem_infos_, ncalls, live>>

(* ------------------------ get_peak_temp_memory ------------------------ *)

\* lines 135-136: the call, blocked until it holds the lock as a reader
GetPeakLock(t, alloc) ==
    /\ CanLockRead
    /\ rw_mutex_' = [rw_mutex_ EXCEPT !.readers = @ + 1]
    /\ Begin(t, [NoCall EXCEPT !.op = "get_peak_temp_memory",
                               !.alloc = alloc], "gp_read")
    /\ UNCHANGED <<registries, live, gh>>

GetPeakRead_Subscript(t) ==
    LET c == call[t] IN
    /\ pc[t] = "gp_read"
    /\ peak_temp_mem_' = SetSlot(peak_temp_mem_, DOMAIN peak_temp_mem_, t,
                                 c.alloc, Slot(peak_temp_mem_, t, c.alloc, 0))
    /\ rw_mutex_' = [rw_mutex_ EXCEPT !.readers = @ - 1]
    /\ Finish(t, Returned(t, Slot(peak_temp_mem_, t, c.alloc, 0), TRUE))
    /\ UNCHANGED <<persist_mem_, persist_mem_infos_, temp_mem_,
                   temp_mem_infos_, ncalls, live, gh>>
\* Lines 137-139.  at() throws std::out_of_range on an absent key, and the
\* exception leaves the function with the read lock still held.
GetPeakRead(t) ==
    LET c == call[t] IN
    /\ pc[t] = "gp_read"
    /\ IF HasSlot(peak_temp_mem_, t, c.alloc)
       THEN /\ rw_mutex_' = [rw_mutex_ EXCEPT !.readers = @ - 1]
            /\ Finish(t, Returned(t, peak_temp_mem_[t][c.alloc], TRUE))
       ELSE /\ rw_mutex_' = rw_mutex_
            /\ Finish(t, [Returned(t, 0, FALSE) EXCEPT
                              !.status = "out_of_range"])
    /\ UNCHANGED <<registries, ncalls, live, gh>>

(* ---------------------- get_total_persist_memory ---------------------- *)

\* line 144: the call, blocked until it holds the lock as a reader
GetTotalLock(t, alloc) ==
    /\ CanLockRead
    /\ rw_mutex_' = [rw_mutex_ EXCEPT !.readers = @ + 1]
    /\ Begin(t, [NoCall EXCEPT !.op = "get_total_persist_memory",
                               !.alloc = alloc], "gt_read")
    /\ UNCHANGED <<registries, live, gh>>

PersistTotal_Count(alloc) ==
    IF alloc \in DOMAIN persist_mem_infos_
    THEN Cardinality(DOMAIN persist_mem_infos_[alloc]) ELSE 0
\* lines 145-147
PersistTotal(alloc) ==
    IF alloc \in DOMAIN persist_mem_ THEN persist_mem_[alloc] ELSE 0

\* lines 145-149
GetTotalRead(t) ==
    LET c == call[t] IN
    /\ pc[t] = "gt_read"
    /\ rw_mutex_' = [rw_mutex_ EXCEPT !.readers = @ - 1]
    /\ Finish(t, [Returned(t, PersistTotal(c.alloc), TRUE) EXCEPT
                      !.expect = LivePersistSum(c.alloc)])
    /\ UNCHANGED <<registries, ncalls, live, gh>>

(* ---------------------- allocator create / destroy -------------------- *)

ApiBudget == status.n < MaxApiCalls

\* what an API call leaves behind: its arguments and its status_t
Return(op, v, m, f, code) ==
    [n |-> status.n + 1, op |-> op, var |-> v, malloc |-> m, free |-> f,
     code |-> code]

\* utils::any_null
any_null(m, f) == m = "null" \/ f = "null"

\* allocator_t::create(): the default allocate/free pair
create_default == [malloc |-> "default", free |-> "default", released |-> 0]

\* allocator_t::create(malloc, free): the supplied pair
create_with(m, f) == [malloc |-> m, free |-> f, released |-> 0]

NewAllocator_Partial(m, f) ==
    create_with(IF m = "null" THEN "default" ELSE m,
                IF f = "null" THEN "default" ELSE f)
\* lines 36-40 (and 49-53): the object a create call makes
NewAllocator(m, f) ==
    IF any_null(m, f) THEN create_default ELSE create_with(m, f)

\* *allocator = ...; return status::success
CreateInto(op, v, m, f) ==
    LET id == Cardinality(DOMAIN allocators) + 1 IN
    /\ allocators' = Put(allocators, id, NewAllocator(m, f))
    /\ handle' = [handle EXCEPT ![v] = id]
    /\ status' = Return(op, v, m, f, "success")

\* dnnl_graph_allocator_create(&v, m, f), lines 28-43
dnnl_graph_allocator_create(v, m, f) ==
    /\ ApiBudget
    /\ IF build.cpu_sycl
       THEN /\ status' = Return("create", v, m, f, "invalid_arguments")
            /\ UNCHANGED <<allocators, handle>>
       ELSE CreateInto("create", v, m, f)
    /\ UNCHANGED <<build, monitorVars>>

\* dnnl_graph_sycl_interop_allocator_create(&v, m, f), lines 45-61
dnnl_graph_sycl_interop_allocator_create(v, m, f) ==
    /\ ApiBudget
    /\ IF build.with_sycl
       THEN CreateInto("sycl_create", v, m, f)
       ELSE /\ status' = Return("sycl_create", v, m, f, "unimplemented")
            /\ UNCHANGED <<allocators, handle>>
    /\ UNCHANGED <<build, monitorVars>>

\* allocator->release()
release(h) == [allocators EXCEPT ![h].released = @ + 1]

DestroyStatus_Success(h) == "success"
\* lines 64-66: the status_t of dnnl_graph_allocator_destroy
DestroyStatus(h) ==
    IF h = nullptr THEN "invalid_arguments" ELSE "success"

\* dnnl_graph_allocator_destroy(v), lines 63-67.  The caller passes a null
\* pointer or a handle it has not destroyed yet.
dnnl_graph_allocator_destroy(v) ==
    LET h == handle[v] IN
    /\ ApiBudget
    /\ h # nullptr => allocators[h].released = 0
    /\ allocators' = IF h = nullptr THEN allocators ELSE release(h)
    /\ status' = Return("destroy", v, "-", "-", DestroyStatus(h))
    /\ UNCHANGED <<handle, build, monitorVars>>

(* ------------------------------- Next --------------------------------- *)

\* record_allocate called with the write lock held
BracketedAllocate(t) ==
    /\ HoldsWrite(t)
    /\ \E a \in Allocs, b \in Addrs, ty \in Lifetimes : \E s \in SizesOf(b) :
           RecordAllocateRead(t, a, b, s, ty)

\* record_deallocate called with the write lock held
BracketedDeallocate(t) ==
    /\ HoldsWrite(t)
    /\ \E a \in Allocs, b \in Addrs : RecordDeallocateRead(t, a, b)

FreeBudget == ncalls < MaxFreeCalls

\* record_allocate called with or without it
AnyAllocate(t) ==
    \E a \in Allocs, b \in Addrs, ty \in Lifetimes : \E s \in SizesOf(b) :
        RecordAllocateRead(t, a, b, s, ty)

\* record_deallocate called with or without it
AnyDeallocate(t) ==
    \E a \in Allocs, b \in Addrs : RecordDeallocateRead(t, a, b)

Reset(t) == \E a \in Allocs : ResetLock(t, a)

GetPeak(t) == \E a \in Allocs : GetPeakLock(t, a)

GetTotal(t) == \E a \in Allocs : GetTotalLock(t, a)

Next ==
    \/ \E t \in Threads : LockWrite(t)
    \/ \E t \in Threads : UnlockWrite(t)
    \/ \E t \in Threads : BracketedAllocate(t)
    \/ \E t \in Threads : RecordAllocateWrite(t)
    \/ \E t \in Threads : BracketedDeallocate(t)
    \/ \E t \in Threads : RecordDeallocateWrite(t)
    \/ \E t \in Threads : Reset(t)
    \/ \E t \in Threads : ResetWrite(t)
    \/ \E t \in Threads : GetPeak(t)
    \/ \E t \in Threads : GetPeakRead(t)
    \/ \E t \in Threads : GetTotal(t)
    \/ \E t \in Threads : GetTotalRead(t)

NextFree ==
    \/ \E t \in Threads : LockWrite(t)
    \/ \E t \in Threads : UnlockWrite(t)
    \/ \E t \in Threads : FreeBudget /\ AnyAllocate(t)
    \/ \E t \in Threads : RecordAllocateWrite(t)
    \/ \E t \in Threads : FreeBudget /\ AnyDeallocate(t)
    \/ \E t \in Threads : RecordDeallocateWrite(t)
    \/ \E t \in Threads : FreeBudget /\ Reset(t)
    \/ \E t \in Threads : ResetWrite(t)
    \/ \E t \in Threads : FreeBudget /\ GetPeak(t)
    \/ \E t \in Threads : GetPeakRead(t)
    \/ \E t \in Threads : FreeBudget /\ GetTotal(t)
    \/ \E t \in Threads : GetTotalRead(t)

Spec == Init /\ [][Next]_vars

SpecFree == Init /\ [][NextFree]_vars

NextFacade ==
    \/ \E v \in HandleVars, m, f \in Callbacks :
           dnnl_graph_allocator_create(v, m, f)
    \/ \E v \in HandleVars, m, f \in Callbacks :
           dnnl_graph_sycl_interop_allocator_create(v, m, f)
    \/ \E v \in HandleVars : dnnl_graph_allocator_destroy(v)

SpecFacade == InitAnyBuild /\ [][NextFacade]_vars

(* ------------------------------ claims -------------------------------- *)

Cur(t, a) == Slot(temp_mem_, t, a, 0)

Peak(t, a) == Slot(peak_temp_mem_, t, a, 0)

\* a record_allocate or record_deallocate has read and not yet written
InFlightRecord == \E t \in Threads : pc[t] \in {"ra_write", "rd_write"}

InAccess(t) == pc[t] \in {"ra_write", "rd_write", "rp_write", "gp_read",
                          "gt_read"}

Mutating(t) == pc[t] \in {"ra_write", "rd_write", "rp_write"}

\* C1: outside an in-flight record_allocate/record_deallocate, every
\* allocator's persistent total is the sum of the sizes in its entry map.
C1_PersistTotalIsSum ==
    ~InFlightRecord =>
        \A a \in Allocs :
            Get(persist_mem_, a, 0)
                = SumSizes(Get(persist_mem_infos_, a, EmptyMap))

\* C1 witness: after a deallocate that found its address, an allocator still
\* holds a persistent entry and a total above zero.
C1_Witness ==
    /\ ~InFlightRecord
    /\ ret.op = "record_deallocate" /\ ret.known
    /\ temp_mem_infos_ = EmptyMap
    /\ Get(persist_mem_, ret.alloc, 0) > 0
    /\ DOMAIN Get(persist_mem_infos_, ret.alloc, EmptyMap) # {}

\* C2 (as claimed): for every thread and allocator the stored temporary peak
\* is at least the stored temporary current, in every reachable state.
C2_PeakAtLeastCurrent ==
    \A t \in Threads, a \in Allocs : Peak(t, a) >= Cur(t, a)

Locked(t) == InAccess(t) /\ (Mutating(t) => HoldsWrite(t))

C5_UnknownDeallocateReported ==
    [][\A t \in Threads :
          (pc[t] = "rd_write" /\ pc'[t] # "rd_write" /\ ~DeallocFound(t))
              => (ret'.status = "error" /\ UNCHANGED registries)]_vars

\* C6 (as claimed): get_peak_temp_memory on a (thread, allocator) slot that
\* was never initialised returns 0 and does not fail.
C6_AbsentPeakIsZero ==
    (ret.op = "get_peak_temp_memory" /\ ~ret.known)
        => (ret.status = "returned" /\ ret.val = 0)

\* C7: the record_deallocate that matches a persistent record_allocate
\* brings the allocator's persistent total back to the value it had before
\* that allocation, moved by what the persistent allocations and
\* deallocations of other addresses in between have added and removed.
C7_DeallocateRestoresTotal ==
    [][\A t \in Threads :
          LET c == call[t] IN
          (/\ pc[t] = "rd_write" /\ pc'[t] = "idle"
           /\ c.buf \in DOMAIN live
           /\ live[c.buf].alloc = c.alloc
           /\ live[c.buf].type = "persistent")
              => Get(persist_mem_', c.alloc, 0) = live[c.buf].back]_vars

\* C7 witness: a persistent allocation has been recorded and deallocated
\* again while another persistent allocation of the allocator stays live.
C7_Witness ==
    /\ ret.op = "record_deallocate" /\ ret.known /\ ret.status = "returned"
    /\ temp_mem_infos_ = EmptyMap
    /\ \E b \in DOMAIN live :
           /\ live[b].type = "persistent" /\ live[b].alloc = ret.alloc
           /\ live[b].back = 0
           /\ PersistTotal(ret.alloc) = live[b].size

\* C8: get_total_persist_memory returns the sum of the sizes of the
\* persistent allocations recorded for the allocator and not deallocated
\* when it reads, which is 0 for an allocator that never had one.
C8_TotalIsLiveSum ==
    ret.op = "get_total_persist_memory" => ret.val = ret.expect

\* C8 witness: the query returned 3 with allocations of sizes 1 and 2 live.
C8_Witness ==
    /\ ret.op = "get_total_persist_memory"
    /\ ret.val = 3
    /\ Cardinality({b \in DOMAIN live : live[b].alloc = ret.alloc
                                        /\ live[b].type = "persistent"}) = 2

\* C9: the stored temporary peak of a thread and allocator decreases in no
\* step but that thread's reset_peak_temp_memory of that allocator.
C9_PeakOnlyDropsAtReset ==
    [][\A t \in Threads, a \in Allocs :
          Slot(peak_temp_mem_', t, a, 0) < Slot(peak_temp_mem_, t, a, 0)
              => (pc[t] = "rp_write" /\ call[t].alloc = a)]_vars

\* C9 witness: a thread has deallocated a temporary allocation and its peak
\* stays above its current.
C9_Witness ==
    /\ ret.op = "record_deallocate" /\ ret.known /\ ret.status = "returned"
    /\ ret.tid \in Threads /\ ret.alloc \in Allocs
    /\ gh[ret.tid][ret.alloc].hist = 2
    /\ Peak(ret.tid, ret.alloc) > Cur(ret.tid, ret.alloc)

\* C10 (as claimed): whenever a thread has a peak stored for an allocator,
\* it is the largest value its temporary current has had since the last
\* reset, which after allocations only is the sum of their sizes.
C10_PeakIsMaxCurrent ==
    \A t \in Threads, a \in Allocs :
        HasSlot(peak_temp_mem_, t, a) => Peak(t, a) = gh[t][a].curMax

\* C11: a get_peak_temp_memory(A) that a thread makes right after its own
\* reset_peak_temp_memory(A), with no other monitor call of its own in
\* between, returns 0, whether or not the slot existed before the reset.
C11_ResetThenPeakIsZero ==
    [][\A t \in Threads :
          (pc[t] = "gp_read" /\ pc'[t] # "gp_read"
           /\ call[t].prev = call[t].alloc)
              => (ret'.status = "returned" /\ ret'.val = 0)]_vars

\* C11 witness: the query returned after a reset made while the thread had
\* a temporary allocation outstanding on the allocator.
C11_Witness ==
    /\ ret.op = "get_peak_temp_memory" /\ ret.status = "returned"
    /\ ret.tid \in Threads /\ ret.alloc \in Allocs
    /\ gh[ret.tid][ret.alloc].hist = 1
    /\ gh[ret.tid][ret.alloc].curMax = Cur(ret.tid, ret.alloc)
    /\ Cur(ret.tid, ret.alloc) > 0
    /\ Peak(ret.tid, ret.alloc) = 0

\* C12 (as claimed): a thread that holds the write lock through lock_write()
\* and has made a record_allocate inside the bracket can go on with a read
\* query: the query's lock_read() does not wait.  (The thread is the only
\* one that can release the lock, so a query that has to wait waits forever.)
C12_BracketedQueryProceeds ==
    \A t \in Threads :
        (/\ HoldsWrite(t) /\ pc[t] = "idle"
         /\ ret.tid = t /\ ret.op = "record_allocate"
         /\ ret.status = "returned")
            => CanLockRead

\* every address has been allocated and deallocated in that order, a
\* temporary one by the thread that allocated it
ProperUse ==
    \A t \in Threads, a \in Allocs : ~gh[t][a].misuse

\* C13 (as claimed): a record_deallocate that finds its address in the
\* calling thread's temporary entry map subtracts the recorded size from the
\* thread's temporary current and removes the entry from that map.
C13_TempDeallocateErasesEntry ==
    [][\A t \in Threads :
          LET c == call[t] IN
          (/\ pc[t] = "rd_write" /\ pc'[t] = "idle"
           /\ ~c.is_persist /\ IsTemp(t, c.alloc, c.buf))
              => /\ Slot(temp_mem_', t, c.alloc, 0)
                       = SubSize(Slot(temp_mem_, t, c.alloc, 0),
                                 temp_mem_infos_[t][c.alloc][c.buf].size_)
                 /\ c.buf \notin
                       DOMAIN Slot(temp_mem_infos_', t, c.alloc, EmptyMap)]_vars

\* C14 (as claimed): as long as every address is allocated and deallocated
\* at most once at a time and in that order, no address is both in an
\* allocator's persistent entry map and in a thread's temporary entry map
\* for that allocator.
C14_AddressInOneRegistry ==
    (ProperUse /\ ~InFlightRecord) =>
        \A a \in Allocs, t \in Threads :
            DOMAIN Get(persist_mem_infos_, a, EmptyMap)
                \cap DOMAIN Slot(temp_mem_infos_, t, a, EmptyMap) = {}

\* C15: a record_allocate whose attribute has the output lifetime aborts the
\* process: it does not return to its caller, no thread runs on, and no
\* persistent or temporary total, peak or entry map is modified.
C15_OutputLifetimeAborts ==
    [][\A t \in Threads :
          (pc[t] = "ra_write" /\ call[t].type = "output"
           /\ pc'[t] # "ra_write")
              => /\ ret'.status = "abort" /\ ret'.tid = t
                 /\ \A u \in Threads : pc'[u] = "dead"
                 /\ UNCHANGED registries]_vars

\* C15 witness: the abort has happened with allocations recorded in both
\* registries.
C15_Witness ==
    /\ ret.op = "record_allocate" /\ ret.status = "abort"
    /\ persist_mem_ # EmptyMap
    /\ temp_mem_ # EmptyMap

\* the build has the path of the create call op
Available(op) ==
    IF op = "create" THEN ~build.cpu_sycl ELSE build.with_sycl

\* C16: a create call, on a path the build has, returns success for each
\* of the four combinations of callbacks, and the allocator it has stored
\* has the supplied pair when both callbacks were given and the default
\* pair, both supplied callbacks ignored, when either was absent.
C16_CreateFallsBackToDefault ==
    (status.op \in {"create", "sycl_create"} /\ Available(status.op)) =>
        /\ status.code = "success"
        /\ handle[status.var] \in DOMAIN allocators
        /\ LET o == allocators[handle[status.var]] IN
           IF status.malloc = "fn" /\ status.free = "fn"
           THEN o.malloc = "fn" /\ o.free = "fn"
           ELSE o.malloc = "default" /\ o.free = "default"

\* C16 witness: a create call with only the free callback given has
\* returned, after one with both given.
C16_Witness ==
    /\ status.op = "create" /\ status.code = "success"
    /\ status.malloc = "null" /\ status.free = "fn"
    /\ \E id \in DOMAIN allocators : allocators[id].malloc = "fn"

\* C17: dnnl_graph_allocator_destroy of a null handle returns
\* invalid_arguments and releases nothing; of a live handle it releases that
\* allocator once, no other, and returns success.
C17_DestroyNullIsInvalid ==
    [][\A v \in HandleVars :
          (status'.n = status.n + 1 /\ status'.op = "destroy"
           /\ status'.var = v)
              => IF handle[v] = nullptr
                 THEN /\ status'.code = "invalid_arguments"
                      /\ UNCHANGED <<allocators, handle, registries>>
                 ELSE /\ status'.code = "success"
                      /\ allocators' =
                            [allocators EXCEPT ![handle[v]].released = 1]
                      /\ UNCHANGED <<handle, registries>>]_vars

\* C17 witness: a destroy of a null handle has returned after a destroy
\* that released an allocator.
C17_Witness ==
    /\ status.op = "destroy" /\ status.code = "invalid_arguments"
    /\ \E id \in DOMAIN allocators : allocators[id].released = 1

\* C18: a record_deallocate of a persistent allocation that another thread
\* has recorded on the allocator finds it: it subtracts the recorded size
\* from the allocator's persistent total, removes the entry, and leaves
\* every thread's temporary current, peak and entry map as they were.
C18_PersistentDeallocateAnyThread ==
    [][\A t \in Threads :
          LET c == call[t] IN
          (/\ pc[t] = "rd_write" /\ pc'[t] # "rd_write"
           /\ c.buf \in DOMAIN live
           /\ live[c.buf].alloc = c.alloc
           /\ live[c.buf].type = "persistent"
           /\ live[c.buf].tid # t)
              => /\ ret'.status = "returned" /\ ret'.known
                 /\ Get(persist_mem_', c.alloc, 0)
                       = SubSize(Get(persist_mem_, c.alloc, 0),
                                 live[c.buf].size)
                 /\ c.buf \notin
                       DOMAIN Get(persist_mem_infos_', c.alloc, EmptyMap)
                 /\ UNCHANGED <<temp_mem_, peak_temp_mem_,
                                temp_mem_infos_>>]_vars

\* C18 witness: a thread with no temporary entry of its own on the
\* allocator has deallocated an allocation that another thread recorded,
\* while that thread has a temporary current on the allocator.
C18_Witness ==
    /\ ret.op = "record_deallocate" /\ ret.status = "returned" /\ ret.known
    /\ ret.owner \in Threads /\ ret.owner # ret.tid
    /\ Slot(temp_mem_infos_, ret.tid, ret.alloc, EmptyMap) = EmptyMap
    /\ Cur(ret.owner, ret.alloc) > 0

\* the temporary current, peak and entry map of thread t for allocator a
TempOf(tm, pk, ti, t, a) ==
    <<Slot(tm, t, a, 0), Slot(pk, t, a, 0), Slot(ti, t, a, EmptyMap)>>

\* thread t is in a call that works on its temporary slot for an allocator:
\* a record_allocate(temp), a record_deallocate on the temporary branch or
\* a reset_peak_temp_memory
TempStep(t) ==
    \/ pc[t] = "ra_write" /\ call[t].type = "temp"
    \/ pc[t] = "rd_write" /\ ~call[t].is_persist
    \/ pc[t] = "rp_write"

\* C19: a record_allocate(temp), a temporary record_deallocate or a
\* reset_peak_temp_memory by thread t on allocator a changes the temporary
\* current, peak and entry map of no other (thread, allocator) pair, and no
\* allocator's persistent total or entry map.
C19_TemporaryFrame ==
    [][\A t \in Threads :
          (TempStep(t) /\ pc'[t] # pc[t])
              => /\ UNCHANGED <<persist_mem_, persist_mem_infos_>>
                 /\ \A u \in Threads, a \in Allocs :
                        (u # t \/ a # call[t].alloc)
                            => TempOf(temp_mem_', peak_temp_mem_',
                                      temp_mem_infos_', u, a)
                                 = TempOf(temp_mem_, peak_temp_mem_,
                                          temp_mem_infos_, u, a)]_vars

\* C19 witness: a thread has reset its peak for an allocator on which it
\* has a temporary allocation outstanding, while another thread has a peak
\* above zero on the same allocator.
C19_Witness ==
    /\ ret.op = "reset_peak_temp_memory" /\ ret.tid \in Threads
    /\ Cur(ret.tid, ret.alloc) > 0 /\ Peak(ret.tid, ret.alloc) = 0
    /\ \E u \in Threads : u # ret.tid /\ Peak(u, ret.alloc) > 0

\* thread t is in a get_peak_temp_memory or a get_total_persist_memory
InQuery(t) == pc[t] \in {"gp_read", "gt_read"}

\* C20: no step of a get_peak_temp_memory or get_total_persist_memory, the
\* call and its lock_read or the read and its return, adds a key to a
\* registry or changes a total, current, peak or entry, whether or not the
\* calling thread has a slot.
C20_QueriesReadOnly ==
    [][\A t \in Threads :
          ((InQuery(t) \/ InQuery(t)') /\ pc'[t] # pc[t])
              => UNCHANGED registries]_vars

\* C20 witness: a get_peak_temp_memory by a thread with no slot has ended
\* while another thread is inside a query and the registries hold
\* allocations.
C20_Witness ==
    /\ ret.op = "get_peak_temp_memory" /\ ~ret.known
    /\ \E u \in Threads : u # ret.tid /\ InQuery(u)
    /\ persist_mem_ # EmptyMap
    /\ ~HasSlot(peak_temp_mem_, ret.tid, ret.alloc)

====
